---------------------------- MODULE Spec2Model ----------------------------
(***************************************************************************)
(* Authentication / session engine of the storefront.                      *)
(*                                                                         *)
(*   admin page : src/unnamed/part_000 (adminAuth, adminLockout and        *)
(*                adminSession in localStorage)                            *)
(*   shop page  : src/unnamed/part_001 (usersDB and userSession)           *)
(*                                                                         *)
(* Time is counted in minutes: Date.now() is `now`, 60*1000 ms is 1 and    *)
(* 30*60*1000 ms is 30.  Every async function is split at its await: the   *)
(* synchronous part before the await is one action (`_call`), the part     *)
(* after it another (`_resume`); in between the other tab and the clock    *)
(* may move.  Each browser tab is one element of Tabs; localStorage is     *)
(* shared by the tabs.                                                     *)
(***************************************************************************)
EXTENDS Integers, Sequences, FiniteSets, TLC

\* ------------------------------------------------------------------ bounds
\* The clock's bound while lock windows are explored.
MaxTime == 12
\* The clock's bound while setup, signup and login are explored from empty storage.
MaxSetupTime == 1
\* The clock's bound while the life of a session is explored: past the 30 minutes.
MaxSessionTime == 31
\* Keep-alive: the clock runs past the expiry of a session issued at 0.
MaxActiveTime == 31
\* Unlocking: the clock runs long enough for a second lock window to pass.
MaxUnlockTime == 4

\* ------------------------------------------------------- program constants
LOCK_THRESHOLD == 5
LOCK_OFFSET == 4
LOCK_CAP == 6
LOCK_STEP == 1
SESSION_TTL == 30
ADMIN_ITERATIONS == 150000
MIN_PASSWORD_LENGTH == 8
USER_SESSION_TTL == 30
USER_ITERATIONS == 120000
DEBOUNCE_DELAY == 1
SIGNUP_MIN_LENGTH == 8

\* ------------------------------------------------------------------ inputs
Tabs == {"tab1", "tab2"}

\* The admin script and the storefront script are loaded by different pages and
\* write different keys of localStorage; a run has one of the two pages open.
Pages == {"admin", "shop"}

Letters == {"a", "b", "c", "d", "e", "f", "g", "h", "w", "r", "o", "n"}
Digits == {"1", "2", "3", "4", "5", "6", "7", "8"}

PwAbcd1234 == <<"a", "b", "c", "d", "1", "2", "3", "4">>
PwWrong1234 == <<"w", "r", "o", "n", "g", "1", "2", "3", "4">>
PwShort == <<"a", "b", "c", "1", "2", "3", "4">>
PwNoDigit == <<"a", "b", "c", "d", "e", "f", "g", "h">>
PwNoLetter == <<"1", "2", "3", "4", "5", "6", "7", "8">>

AdminEmails == {"admin@shop", "other@shop"}

\* Identity and password offered to setupAdmin, and the passwords offered to login.
SetupInputs == {<<"admin@shop", PwAbcd1234>>, <<"other@shop", PwWrong1234>>,
                <<"admin@shop", PwShort>>, <<"admin@shop", PwNoDigit>>,
                <<"other@shop", PwNoLetter>>}
LoginPasswords == {PwAbcd1234, PwWrong1234}

\* Identity and password offered to login: those of the first setup input, the
\* same with another password, and the same with another identity.
LoginInputs == {<<"admin@shop", PwAbcd1234>>, <<"admin@shop", PwWrong1234>>,
                <<"other@shop", PwAbcd1234>>}

\* Customer emails, as sequences of characters; two differ in letter case only.
EmailLowerA == <<"a", "@", "x">>
EmailUpperA == <<"A", "@", "x">>
EmailB == <<"b", "@", "x">>
UserEmails == {EmailLowerA, EmailUpperA, EmailB}

\* Email and password offered to signupUser where the password policy matters.
SignupPolicyInputs == {<<EmailLowerA, PwAbcd1234>>, <<EmailUpperA, PwShort>>,
                       <<EmailB, PwNoDigit>>, <<EmailB, PwNoLetter>>}

\* Email and password offered to signupUser.
SignupInputs == {<<EmailLowerA, PwAbcd1234>>, <<EmailUpperA, PwWrong1234>>,
                 <<EmailB, PwWrong1234>>}

\* String.prototype.toLowerCase on one character of the emails above.
lowerChar(c) == IF c = "A" THEN "a" ELSE IF c = "B" THEN "b" ELSE c

\* Math.random().toString(36).slice(2,6): the suffixes generateId may draw.
IdSuffixes == {"k3f9"}

\* crypto.getRandomValues(new Uint8Array(16)): the values it may return for a
\* session token, and for a salt.
RandomBytes == {"r1", "r2"}
SaltBytes == {"r1"}

\* A key of localStorage that holds nothing (getItem gives null).
NULL == [isNull |-> TRUE]

\* -------------------------------------------------------------------- state
VARIABLES
    page,        \* the page the tabs have open: "admin" (part_000) or "shop" (part_001)
    now,         \* Date.now(), in minutes
    auth,        \* localStorage.adminAuth
    lockout,     \* localStorage.adminLockout
    session,     \* localStorage.adminSession
    call,        \* per tab: the admin async call suspended at its await
    usersDB,     \* localStorage.usersDB, <<>> while the key is absent
    userSession, \* localStorage.userSession
    ucall,       \* per tab: the customer async call suspended at its await
    last,        \* history: the call that returned last, and what it returned
    streak,      \* history: failures recorded since the lockout record was last reset
    given,       \* history: <<hash, password>> of every credential record created
    refreshed,   \* history: the stored session was refreshed since it was issued
    timer,       \* per tab: the debounce timers of the keep-alive listeners installed
    ufails,      \* history: consecutive failed password checks of loginUser
    ui,          \* per tab: the loaded page's forms, submit buttons and click handlers
    kept         \* history: per tab, its keep-alive invoked refresh less than 60 s ago

admin == <<auth, lockout, session, call, streak>>
customer == <<usersDB, userSession, ucall>>
vars == <<page, now, auth, lockout, session, call, usersDB, userSession, ucall,
          last, streak, given, refreshed, timer, ufails, ui, kept>>

Idle == [pc |-> "idle"]

\* The keep-alive of a tab: one debounce closure for every call of
\* setupSessionKeepAlive in the loaded page, each with the timeout it holds
\* (pending, and due at `due`). Every call adds a listener; none is ever removed.
debounce == [pending |-> FALSE, due |-> 0]
NoListener == <<>>
Listening == <<debounce>>
setupSessionKeepAlive(listeners) == Append(listeners, debounce)

\* The page of a tab as the browser builds it, before init() has run: no form is
\* displayed, the submit buttons are enabled, no click handler is suspended and
\* the timeout that shows the auth modal is not set.
FreshPage ==
    [form |-> FALSE, authTimer |-> FALSE, loginDisabled |-> FALSE,
     signupDisabled |-> FALSE, login |-> Idle, signup |-> Idle]

\* History only: the call that returned last.
\*   op, reason - the operation and the reason (or value) it returned
\*   who        - <<identity, password>> of a setup or signup that returned ok
\*   facts      - what held when the call was made and when it returned; a login
\*                that returned ok has "justNow", which Tick takes away: it
\*                says that no time has passed since the return
Returned(op, reason, who, facts) ==
    [op |-> op, reason |-> reason, who |-> who, facts |-> facts]

Fact(name, holds) == IF holds THEN {name} ELSE {}

\* History only: the failed password checks of loginUser since its last success.
\* The code keeps no such count, so a run counts them only when it starts with
\* Counted; the count stops at one more than the admin page's threshold.
NotCounted == [counting |-> FALSE, n |-> 0]
Counted == [counting |-> TRUE, n |-> 0]
failedAgain(f) ==
    IF f.counting /\ f.n <= LOCK_THRESHOLD THEN [f EXCEPT !.n = @ + 1] ELSE f

\* ----------------------------------------------------------- key derivation
toBase64(bytes) == <<"b64", bytes>>
fromBase64(b64) == b64[2]

\* PBKDF2-SHA256 as a deterministic, injective function of its three inputs.
deriveKey(password, salt, iterations) == <<"key", password, salt, iterations>>

hashPassword_otherIterations(password, salt, iterations) ==
    [salt |-> toBase64(salt), iterations |-> iterations,
     hash |-> toBase64(deriveKey(password, salt, iterations + 1))]

hashPassword(password, salt, iterations) ==
    LET raw == deriveKey(password, salt, iterations)
    IN  [salt |-> toBase64(salt), iterations |-> iterations, hash |-> toBase64(raw)]

verifyPassword_saltOnly(password, a) ==
    toBase64(fromBase64(a.salt)) = a.salt

verifyPassword(password, a) ==
    LET salt == fromBase64(a.salt)
        raw == deriveKey(password, salt, a.iterations)
        compare == toBase64(raw)
    IN  compare = a.hash

getAuth == auth

hasAuth_always == TRUE

hasAuth == auth # NULL

\* ------------------------------------------------------------------ lockout
getLockout == IF lockout = NULL THEN [count |-> 0, lockUntil |-> 0] ELSE lockout

resetLockout_countOnly == [count |-> 0, lockUntil |-> getLockout.lockUntil]

resetLockout == [count |-> 0, lockUntil |-> 0]

Min(a, b) == IF a <= b THEN a ELSE b

recordFailure_noCap(state, t) ==
    LET count == state.count + 1
    IN  [count |-> count,
         lockUntil |-> IF count >= LOCK_THRESHOLD
                         THEN t + (count - LOCK_OFFSET) * LOCK_STEP
                         ELSE state.lockUntil]

recordFailure_shrinking(state, t) ==
    LET count == state.count + 1
        step == LOCK_THRESHOLD + LOCK_CAP - count
    IN  [count |-> count,
         lockUntil |-> IF count >= LOCK_THRESHOLD
                         THEN t + step * LOCK_STEP
                         ELSE state.lockUntil]

recordFailure_forgets(state, t) ==
    LET count == IF state.lockUntil > 0 /\ state.lockUntil <= t
                   THEN 1 ELSE state.count + 1
        step == Min(count - LOCK_OFFSET, LOCK_CAP)
    IN  [count |-> count,
         lockUntil |-> IF count >= LOCK_THRESHOLD
                         THEN t + step * LOCK_STEP
                         ELSE state.lockUntil]

\* The record recordFailure() writes when it runs at time t on `state`.
recordFailure(state, t) ==
    LET count == state.count + 1
        step == Min(count - LOCK_OFFSET, LOCK_CAP)
    IN  [count |-> count,
         lockUntil |-> IF count >= LOCK_THRESHOLD
                         THEN t + step * LOCK_STEP
                         ELSE state.lockUntil]

isLockedOut_late == getLockout.lockUntil > now + 1

isLockedOut_permanent == getLockout.lockUntil > 0

isLockedOut == getLockout.lockUntil > now

\* ------------------------------------------------------------------ session
getSession == session

createToken(bytes) == <<"hex", bytes>>

newSession(token, email, t) ==
    [token |-> token, email |-> email, createdAt |-> t,
     expiresAt |-> t + SESSION_TTL, lastActivity |-> t]

isLoggedIn_neverExpires(s, t) == s # NULL

\* isLoggedIn(): the value it returns ...
isLoggedIn_result(s, t) ==
    IF s = NULL THEN FALSE
    ELSE IF s.expiresAt < t THEN FALSE
    ELSE TRUE

\* ... and what it leaves in adminSession.
isLoggedIn_store(s, t) ==
    IF s = NULL THEN s
    ELSE IF s.expiresAt < t THEN NULL
    ELSE s

refreshSession_store_reissued(s, t) ==
    IF s = NULL THEN s
    ELSE [s EXCEPT !.createdAt = t, !.expiresAt = t + SESSION_TTL, !.lastActivity = t]

\* The record refreshSession() leaves in adminSession at time t.
refreshSession_store(s, t) ==
    IF s = NULL THEN s
    ELSE [s EXCEPT !.expiresAt = t + SESSION_TTL, !.lastActivity = t]

\* ------------------------------------------------------------------- Init
\* Empty storage, either page open.
Init ==
    /\ page \in Pages
    /\ now = 0
    /\ auth = NULL
    /\ lockout = NULL
    /\ session = NULL
    /\ call = [t \in Tabs |-> Idle]
    /\ usersDB = <<>>
    /\ userSession = NULL
    /\ ucall = [t \in Tabs |-> Idle]
    /\ last = Returned("none", "none", <<>>, {})
    /\ streak = 0
    /\ given = {}
    /\ refreshed = FALSE
    /\ timer = [t \in Tabs |-> NoListener]
    /\ ufails = NotCounted
    /\ ui = [t \in Tabs |-> FreshPage]
    /\ kept = [t \in Tabs |-> FALSE]

\* ------------------------------------------------------------ admin actions
Tick(max) ==
    /\ now < max
    /\ now' = now + 1
    /\ last' = [last EXCEPT !.facts = @ \ {"justNow"}]
    /\ kept' = [t \in Tabs |-> FALSE]
    /\ UNCHANGED <<ui, ufails, timer, page, admin, customer, streak, given, refreshed>>

\* History only: what holds of a login call when it is made.
\*   afterSetup   - the call that returned last is a setup that returned ok for the
\*                  same identity and password
\*   lockedAtCall - the lock is in force
\*   atExpiry     - this is the first instant the lock is no longer in force
\*   emailOk, passwordOk - the identity is the stored record's; the password is the
\*                  one the stored record was created with
loginFacts(email, password) ==
    Fact("afterSetup", /\ last.op = "setup"
                       /\ last.reason = "ok"
                       /\ last.who = <<email, password>>)
    \cup Fact("lockedAtCall", getLockout.lockUntil > now)
    \cup Fact("atExpiry", getLockout.count >= 5 /\ getLockout.lockUntil = now)

credentialFacts(email, password) ==
    Fact("emailOk", auth # NULL /\ auth.email = email)
    \cup Fact("passwordOk", auth # NULL /\ <<auth.hash, password>> \in given)

login_call_countsSetupRequired(t, email, password) ==
    /\ page = "admin"
    /\ call[t] = Idle
    /\ IF isLockedOut
         THEN /\ last' = Returned("login", "locked", <<>>,
                                  credentialFacts(email, password))
              /\ UNCHANGED <<call, lockout, streak>>
         ELSE IF ~hasAuth
         THEN /\ last' = Returned("login", "setup-required", <<>>, {})
              /\ lockout' = recordFailure(getLockout, now)
              /\ streak' = streak + 1
              /\ UNCHANGED call
         ELSE /\ call' = [call EXCEPT ![t] =
                            [pc |-> "login", email |-> email, password |-> password,
                             auth |-> getAuth, facts |-> loginFacts(email, password)]]
              /\ UNCHANGED <<last, lockout, streak>>
    /\ UNCHANGED <<ui, kept, ufails, timer, page, now, auth, session, customer, given, refreshed>>

\* login(email, password) up to the await of verifyPassword.
login_call(t, email, password) ==
    /\ page = "admin"
    /\ call[t] = Idle
    /\ IF isLockedOut
         THEN /\ last' = Returned("login", "locked", <<>>,
                                  credentialFacts(email, password))
              /\ UNCHANGED call
         ELSE IF ~hasAuth
         THEN /\ last' = Returned("login", "setup-required", <<>>, {})
              /\ UNCHANGED call
         ELSE /\ call' = [call EXCEPT ![t] =
                            [pc |-> "login", email |-> email, password |-> password,
                             auth |-> getAuth, facts |-> loginFacts(email, password)]]
              /\ UNCHANGED last
    /\ UNCHANGED <<ui, kept, ufails, timer, page, now, auth, lockout, session, streak, customer, given, refreshed>>

login_ok_ignoresEmail(password, email, a) == verifyPassword(password, a)

\* const ok = await verifyPassword(password, auth) && email === auth.email
login_ok(password, email, a) == verifyPassword(password, a) /\ email = a.email

\* login(email, password) from the await of verifyPassword to its return.
login_resume(t) ==
    /\ page = "admin"
    /\ call[t].pc = "login"
    /\ LET c == call[t]
           whileLocked == Fact("whileLocked", getLockout.lockUntil > now)
       IN  IF login_ok(c.password, c.email, c.auth)
             THEN /\ lockout' = resetLockout
                  /\ \E bytes \in RandomBytes:
                        session' = newSession(createToken(bytes), c.email, now)
                  /\ streak' = 0
                  /\ refreshed' = FALSE
                  /\ last' = Returned("login", "ok", <<>>,
                                      c.facts \cup {"justNow"} \cup whileLocked)
             ELSE /\ lockout' = recordFailure(getLockout, now)
                  /\ streak' = streak + 1
                  /\ last' = Returned("login", "invalid", <<>>, whileLocked)
                  /\ UNCHANGED <<session, refreshed>>
    /\ call' = [call EXCEPT ![t] = Idle]
    /\ UNCHANGED <<ui, kept, ufails, timer, page, now, auth, customer, given>>

isStrong_lengthOnly(password) == Len(password) >= MIN_PASSWORD_LENGTH

\* The password policy of setupAdmin.
isStrong(password) ==
    /\ Len(password) >= MIN_PASSWORD_LENGTH
    /\ \E i \in 1..Len(password): password[i] \in Letters
    /\ \E i \in 1..Len(password): password[i] \in Digits

\* setupAdmin(email, password) up to the await of hashPassword; the salt is drawn
\* before the derivation starts.
setupAdmin_call(t, email, password) ==
    /\ page = "admin"
    /\ call[t] = Idle
    /\ IF ~isStrong(password)
         THEN /\ last' = Returned("setup", "weak", <<>>, {})
              /\ UNCHANGED call
         ELSE /\ \E salt \in SaltBytes:
                    call' = [call EXCEPT ![t] =
                               [pc |-> "setup", email |-> email, password |-> password,
                                salt |-> salt]]
              /\ UNCHANGED last
    /\ UNCHANGED <<ui, kept, ufails, timer, page, now, auth, lockout, session, streak, customer, given, refreshed>>

\* setupAdmin from the await to its return: setAuth, resetLockout.
setupAdmin_resume(t) ==
    /\ page = "admin"
    /\ call[t].pc = "setup"
    /\ LET c == call[t]
           hp == hashPassword(c.password, c.salt, ADMIN_ITERATIONS)
       IN  /\ auth' = [email |-> c.email, salt |-> hp.salt, iterations |-> hp.iterations,
                       hash |-> hp.hash, createdAt |-> now, version |-> 1]
           /\ given' = given \cup {<<hp.hash, c.password>>}
           /\ last' = Returned("setup", "ok", <<c.email, c.password>>, {})
    /\ lockout' = resetLockout
    /\ streak' = 0
    /\ call' = [call EXCEPT ![t] = Idle]
    /\ UNCHANGED <<ui, kept, ufails, timer, page, now, session, customer, refreshed>>

\* History only: what holds when the validity of the stored session s is checked.
\*   afterLogin - a login has just returned ok: no other call has returned and no
\*                time has passed since
\*   afterSignup - likewise, a signup has just returned ok
\*   noSession  - no session is stored
\*   past30     - the time is later than createdAt + 30 minutes and the session
\*                was not refreshed since it was issued
\*   expired    - expiresAt <= now
sessionFacts(s) ==
    Fact("afterLogin", /\ last.op \in {"login", "loginUser"}
                       /\ last.reason = "ok"
                       /\ "justNow" \in last.facts)
    \cup Fact("afterSignup", /\ last.op = "signup"
                              /\ last.reason = "ok"
                              /\ "justNow" \in last.facts)
    \cup Fact("noSession", s = NULL)
    \cup Fact("past30", s # NULL /\ ~refreshed /\ now > s.createdAt + 30)
    \cup Fact("expired", s # NULL /\ s.expiresAt <= now)

\* isLoggedIn(), as init() calls it at page load: an expired session is removed.
isLoggedIn(t) ==
    /\ page = "admin"
    /\ session' = isLoggedIn_store(getSession, now)
    /\ last' = Returned("isLoggedIn",
                        IF isLoggedIn_result(getSession, now) THEN "true" ELSE "false",
                        <<>>, sessionFacts(session))
    /\ UNCHANGED <<ui, kept, ufails, timer, page, now, auth, lockout, call, streak, customer, given, refreshed>>

refreshSession(t) ==
    /\ page = "admin"
    /\ session' = refreshSession_store(getSession, now)
    /\ refreshed' = (refreshed \/ session # NULL)
    /\ last' = Returned("refresh", "none", <<>>, {})
    /\ UNCHANGED <<ui, kept, ufails, timer, page, now, auth, lockout, call, streak, customer, given>>

logout_resetsLockout(t) ==
    /\ page = "admin"
    /\ session' = NULL
    /\ lockout' = resetLockout
    /\ last' = Returned("logout", "none", <<>>, {})
    /\ UNCHANGED <<ui, kept, ufails, timer, page, now, auth, call, streak, customer, given, refreshed>>

logout_clearsStorage(t) ==
    /\ page = "admin"
    /\ session' = NULL
    /\ auth' = NULL
    /\ last' = Returned("logout", "none", <<>>, {})
    /\ UNCHANGED <<ui, kept, ufails, timer, page, now, lockout, call, streak, customer, given, refreshed>>

\* logout(): clearSession().
logout(t) ==
    /\ page = "admin"
    /\ session' = NULL
    /\ last' = Returned("logout", "none", <<>>, {})
    /\ UNCHANGED <<ui, kept, ufails, timer, page, now, auth, lockout, call, streak, customer, given, refreshed>>

\* --------------------------------------------------------- customer actions
\* The profile and users keys that signupUser and loginUser also write
\* (saveProfile, upsertAdminUsers) are read by no operation modelled here.
toLowerCase(str) == [i \in 1..Len(str) |-> lowerChar(str[i])]

\* pbkdf2(): the derived key, base64-encoded.
pbkdf2(password, saltBytes, iterations) ==
    toBase64(deriveKey(password, saltBytes, iterations))

\* ls.get(USER_DB_KEY, []): the absent key reads as the empty list.
getUsersDB == usersDB

findUser_exactCase(db, email) ==
    LET hits == {i \in 1..Len(db): db[i].email = email}
    IN  IF hits = {} THEN 0 ELSE CHOOSE i \in hits: \A j \in hits: i <= j

\* db.some / db.find on the lower-cased email: the index of the first match, 0 if none.
findUser(db, email) ==
    LET hits == {i \in 1..Len(db): toLowerCase(db[i].email) = toLowerCase(email)}
    IN  IF hits = {} THEN 0 ELSE CHOOSE i \in hits: \A j \in hits: i <= j

generateId(prefix, t, rnd) == <<prefix, t, rnd>>

newUserSession_anonymous(user, t) ==
    [uid |-> <<"user", t, "none">>, email |-> user.email, createdAt |-> t,
     expiresAt |-> t + USER_SESSION_TTL]

newUserSession_expired(user, t) ==
    [uid |-> user.id, email |-> user.email, createdAt |-> t, expiresAt |-> t]

newUserSession(user, t) ==
    [uid |-> user.id, email |-> user.email, createdAt |-> t,
     expiresAt |-> t + USER_SESSION_TTL]

\* signupUser up to the await of pbkdf2.
signupUser_call(t, email, password) ==
    /\ page = "shop"
    /\ ucall[t] = Idle
    /\ LET db == getUsersDB
       IN  IF findUser(db, email) # 0
             THEN /\ last' = Returned("signup", "exists", <<>>,
                                      Fact("otherCase",
                                           \A i \in 1..Len(db): db[i].email # email))
                  /\ UNCHANGED ucall
             ELSE /\ \E salt \in SaltBytes:
                        ucall' = [ucall EXCEPT ![t] =
                                    [pc |-> "signup", email |-> email,
                                     password |-> password, db |-> db, salt |-> salt]]
                  /\ UNCHANGED last
    /\ UNCHANGED <<ui, kept, ufails, timer, page, now, admin, usersDB, userSession, streak, given, refreshed>>

\* signupUser from the await to its return: the user is pushed on the db that was
\* read before the await, and that db is written back.
signupUser_resume(t) ==
    /\ page = "shop"
    /\ ucall[t].pc = "signup"
    /\ \E rnd \in IdSuffixes:
          LET c == ucall[t]
              hash == pbkdf2(c.password, c.salt, USER_ITERATIONS)
              user == [id |-> generateId("user", now, rnd), email |-> c.email,
                       pass |-> [salt |-> toBase64(c.salt),
                                 iterations |-> USER_ITERATIONS, hash |-> hash]]
          IN  /\ usersDB' = Append(c.db, user)
              /\ userSession' = newUserSession(user, now)
              /\ given' = given \cup {<<hash, c.password>>}
              /\ last' = Returned("signup", "ok", <<c.email, c.password>>, {"justNow"})
    /\ refreshed' = FALSE
    /\ ucall' = [ucall EXCEPT ![t] = Idle]
    /\ UNCHANGED <<ui, kept, ufails, timer, page, now, admin>>

\* History only: what holds of a loginUser call when it is made.
loginUserFacts(email, password) ==
    Fact("afterSetup", /\ last.op = "signup"
                       /\ last.reason = "ok"
                       /\ last.who = <<email, password>>)

\* loginUser up to the await of pbkdf2.
loginUser_call(t, email, password) ==
    /\ page = "shop"
    /\ ucall[t] = Idle
    /\ LET db == getUsersDB
           i == findUser(db, email)
       IN  IF i = 0
             THEN /\ last' = Returned("loginUser", "none", <<>>, {})
                  /\ UNCHANGED ucall
             ELSE /\ ucall' = [ucall EXCEPT ![t] =
                                 [pc |-> "login", email |-> email, password |-> password,
                                  user |-> db[i],
                                  facts |-> loginUserFacts(email, password)]]
                  /\ UNCHANGED last
    /\ UNCHANGED <<ui, kept, ufails, timer, page, now, admin, usersDB, userSession, streak, given, refreshed>>

\* loginUser from the await to its return.
loginUser_resume(t) ==
    /\ page = "shop"
    /\ ucall[t].pc = "login"
    /\ LET c == ucall[t]
           salt == fromBase64(c.user.pass.salt)
           calc == pbkdf2(c.password, salt, c.user.pass.iterations)
       IN  IF calc # c.user.pass.hash
             THEN /\ last' = Returned("loginUser", "none", <<>>, {})
                  /\ ufails' = failedAgain(ufails)
                  /\ UNCHANGED <<userSession, refreshed>>
             ELSE /\ userSession' = newUserSession(c.user, now)
                  /\ refreshed' = FALSE
                  /\ ufails' = [ufails EXCEPT !.n = 0]
                  /\ last' = Returned("loginUser", "ok", <<>>, c.facts \cup {"justNow"})
    /\ ucall' = [ucall EXCEPT ![t] = Idle]
    /\ UNCHANGED <<ui, kept, timer, page, now, admin, usersDB, given>>

getUserSession == userSession

isUserLoggedIn_result(s, t) == s # NULL /\ s.expiresAt > t

\* isUserLoggedIn(), as requireAuthOnFirstVisit() calls it: it writes nothing.
isUserLoggedIn(t) ==
    /\ page = "shop"
    /\ last' = Returned("isUserLoggedIn",
                        IF isUserLoggedIn_result(getUserSession, now)
                          THEN "true" ELSE "false",
                        <<>>, sessionFacts(userSession))
    /\ UNCHANGED <<ui, kept, ufails, timer, page, now, admin, customer, given, refreshed>>

refreshUserSession_store(s, t) ==
    IF s = NULL THEN s ELSE [s EXCEPT !.expiresAt = t + USER_SESSION_TTL]

refreshUserSession(t) ==
    /\ page = "shop"
    /\ userSession' = refreshUserSession_store(getUserSession, now)
    /\ refreshed' = (refreshed \/ userSession # NULL)
    /\ last' = Returned("refreshUser", "none", <<>>, {})
    /\ UNCHANGED <<ui, kept, ufails, timer, page, now, admin, usersDB, ucall, given>>

\* --------------------------------------------------------------- keep-alive
\* init(), on DOMContentLoaded of the admin page in a tab with no call in flight:
\* the tab's page, listeners and timeouts start afresh, and isLoggedIn() decides
\* between showDashboard(), which calls setupSessionKeepAlive(), and showLogin(),
\* which displays the login form and wires its button.
init(t) ==
    /\ page = "admin"
    /\ call[t] = Idle
    /\ ui[t].login = Idle
    /\ session' = isLoggedIn_store(getSession, now)
    /\ timer' = [timer EXCEPT ![t] = IF isLoggedIn_result(getSession, now)
                                       THEN Listening ELSE NoListener]
    /\ ui' = [ui EXCEPT ![t] =
                [FreshPage EXCEPT !.form = ~isLoggedIn_result(getSession, now)]]
    /\ kept' = [kept EXCEPT ![t] = FALSE]
    /\ last' = Returned("isLoggedIn",
                        IF isLoggedIn_result(getSession, now) THEN "true" ELSE "false",
                        <<>>, sessionFacts(session))
    /\ UNCHANGED <<ufails, page, now, auth, lockout, call, streak, customer, given, refreshed>>

\* requireAuthOnFirstVisit(), called by init() of the shop page: the auth modal
\* is scheduled when isUserLoggedIn() is false, setupUserSessionKeepAlive() is
\* called when it is true.
requireAuthOnFirstVisit(t) ==
    /\ page = "shop"
    /\ ucall[t] = Idle
    /\ ui[t].login = Idle /\ ui[t].signup = Idle
    /\ timer' = [timer EXCEPT ![t] = IF isUserLoggedIn_result(getUserSession, now)
                                       THEN Listening ELSE NoListener]
    /\ ui' = [ui EXCEPT ![t] =
                [FreshPage EXCEPT !.authTimer = ~isUserLoggedIn_result(getUserSession, now)]]
    /\ kept' = [kept EXCEPT ![t] = FALSE]
    /\ last' = Returned("isUserLoggedIn",
                        IF isUserLoggedIn_result(getUserSession, now)
                          THEN "true" ELSE "false",
                        <<>>, sessionFacts(userSession))
    /\ UNCHANGED <<ufails, page, now, admin, customer, given, refreshed>>

\* The timeout requireAuthOnFirstVisit() set runs, 5 seconds after the page
\* load: showAuthModal(true).
authTimer_timeout(t) ==
    /\ page = "shop"
    /\ ui[t].authTimer
    /\ ui' = [ui EXCEPT ![t].authTimer = FALSE, ![t].form = TRUE]
    /\ UNCHANGED <<kept, ufails, timer, page, now, admin, customer, last, given, refreshed>>

\* A click, keydown, mousemove, scroll or touchstart in the tab: every handler
\* that setupSessionKeepAlive() has installed runs, and in each debounce clears
\* the pending timeout and sets a new one.
handler(t) ==
    /\ timer[t] # NoListener
    /\ timer' = [timer EXCEPT ![t] =
                   [i \in 1..Len(@) |-> [pending |-> TRUE, due |-> now + DEBOUNCE_DELAY]]]
    /\ UNCHANGED <<ui, kept, ufails, page, now, admin, customer, last, given, refreshed>>

\* A timeout set by debounce runs: refreshSession() on the admin page,
\* refreshUserSession() on the shop page.
debounce_timeout(t) ==
    /\ \E i \in 1..Len(timer[t]):
          /\ timer[t][i].pending
          /\ timer[t][i].due <= now
          /\ timer' = [timer EXCEPT ![t][i] = debounce]
    /\ kept' = [kept EXCEPT ![t] = TRUE]
    /\ IF page = "admin"
         THEN /\ session' = refreshSession_store(getSession, now)
              /\ refreshed' = (refreshed \/ session # NULL)
              /\ last' = Returned("refresh", "none", <<>>, {})
              /\ UNCHANGED userSession
         ELSE /\ userSession' = refreshUserSession_store(getUserSession, now)
              /\ refreshed' = (refreshed \/ userSession # NULL)
              /\ last' = Returned("refreshUser", "none", <<>>, {})
              /\ UNCHANGED session
    /\ UNCHANGED <<ui, ufails, page, now, auth, lockout, call, streak, usersDB, ucall, given>>

\* Time passes under continued activity: an input event has been handled at this
\* instant (the user lets no minute pass without one), and every timeout that is
\* due has run. The clock counts whole minutes: an event handled at the instant
\* a timeout is due, before it runs, stands for one that arrives just before.
TickActive(max) ==
    /\ \E t \in Tabs: \E i \in 1..Len(timer[t]):
          timer[t][i].pending /\ timer[t][i].due = now + DEBOUNCE_DELAY
    /\ \A t \in Tabs: \A i \in 1..Len(timer[t]):
          timer[t][i].pending => timer[t][i].due > now
    /\ Tick(max)

\* ------------------------------------------------------------ click handlers
\* The submit buttons of the two pages. A button is clicked only while its form
\* is displayed and the button is enabled. A handler runs from the click to its
\* first await that suspends (an await of a call that has already returned does
\* not let another event in), and from there to its end when the key derivation
\* settles. The derivation may also fail (crypto.subtle rejects, or is missing
\* in a page that is not served securely): the awaited call then throws.

\* wireLogin(), the click handler of #admin-login-btn, up to the await of the
\* key derivation in setupAdmin() or in login().
wireLogin_click(t, email, password) ==
    /\ page = "admin"
    /\ ui[t].form /\ ~ui[t].loginDisabled
    /\ IF ~hasAuth
         THEN IF ~isStrong(password)
                THEN /\ last' = Returned("setup", "weak", <<>>, {})
                     /\ UNCHANGED ui
                ELSE /\ \E salt \in SaltBytes:
                          ui' = [ui EXCEPT ![t].loginDisabled = TRUE,
                                           ![t].login =
                                     [pc |-> "setup", email |-> email,
                                      password |-> password, salt |-> salt]]
                     /\ UNCHANGED last
         ELSE IF isLockedOut
                THEN /\ last' = Returned("login", "locked", <<>>,
                                         credentialFacts(email, password))
                     /\ UNCHANGED ui
                ELSE /\ ui' = [ui EXCEPT ![t].loginDisabled = TRUE,
                                         ![t].login =
                                   [pc |-> "login", email |-> email,
                                    password |-> password, auth |-> getAuth,
                                    facts |-> loginFacts(email, password)]]
                     /\ UNCHANGED last
    /\ UNCHANGED <<kept, ufails, timer, page, now, admin, customer, given, refreshed>>

\* The same handler from the await to its next await or to its end. After
\* setupAdmin() has returned ok the handler calls login() at once, which finds the
\* lockout just reset and the record just stored, and suspends in verifyPassword.
\* The finally block enables the button however the try block ends.
wireLogin_resume(t) ==
    /\ page = "admin"
    /\ ui[t].login.pc \in {"setup", "login"}
    /\ LET c == ui[t].login
           hp == hashPassword(c.password, c.salt, ADMIN_ITERATIONS)
           stored == [email |-> c.email, salt |-> hp.salt, iterations |-> hp.iterations,
                      hash |-> hp.hash, createdAt |-> now, version |-> 1]
           whileLocked == Fact("whileLocked", getLockout.lockUntil > now)
       IN  \/ /\ last' = Returned(c.pc, "error", <<>>, {})
              /\ ui' = [ui EXCEPT ![t].login = Idle, ![t].loginDisabled = FALSE]
              /\ UNCHANGED <<auth, lockout, session, streak, given, refreshed, timer>>
           \/ /\ c.pc = "setup"
              /\ auth' = stored
              /\ given' = given \cup {<<hp.hash, c.password>>}
              /\ lockout' = resetLockout
              /\ streak' = 0
              /\ last' = Returned("setup", "ok", <<c.email, c.password>>, {})
              /\ ui' = [ui EXCEPT ![t].login =
                          [pc |-> "login", email |-> c.email, password |-> c.password,
                           auth |-> stored, facts |-> {"afterSetup"}]]
              /\ UNCHANGED <<session, refreshed, timer>>
           \/ /\ c.pc = "login"
              /\ login_ok(c.password, c.email, c.auth)
              /\ lockout' = resetLockout
              /\ \E bytes \in RandomBytes:
                    session' = newSession(createToken(bytes), c.email, now)
              /\ streak' = 0
              /\ refreshed' = FALSE
              /\ last' = Returned("login", "ok", <<>>,
                                  c.facts \cup {"justNow"} \cup whileLocked)
              /\ ui' = [ui EXCEPT ![t].login = Idle, ![t].loginDisabled = FALSE,
                                  ![t].form = FALSE]
              /\ timer' = [timer EXCEPT ![t] = setupSessionKeepAlive(@)]
              /\ UNCHANGED <<auth, given>>
           \/ /\ c.pc = "login"
              /\ ~login_ok(c.password, c.email, c.auth)
              /\ lockout' = recordFailure(getLockout, now)
              /\ streak' = streak + 1
              /\ last' = Returned("login", "invalid", <<>>, whileLocked)
              /\ ui' = [ui EXCEPT ![t].login = Idle, ![t].loginDisabled = FALSE]
              /\ UNCHANGED <<auth, session, given, refreshed, timer>>
    /\ UNCHANGED <<kept, ufails, page, now, call, customer>>

\* wireAuthModal(), the click handler of #auth-login-btn, up to the await of
\* pbkdf2 in loginUser().
wireAuthModal_loginClick(t, email, password) ==
    /\ page = "shop"
    /\ ui[t].form /\ ~ui[t].loginDisabled
    /\ LET db == getUsersDB
           i == findUser(db, email)
       IN  IF i = 0
             THEN /\ last' = Returned("loginUser", "none", <<>>, {})
                  /\ UNCHANGED ui
             ELSE /\ ui' = [ui EXCEPT ![t].loginDisabled = TRUE,
                                      ![t].login =
                                [pc |-> "login", email |-> email, password |-> password,
                                 user |-> db[i],
                                 facts |-> loginUserFacts(email, password)]]
                  /\ UNCHANGED last
    /\ UNCHANGED <<kept, ufails, timer, page, now, admin, customer, given, refreshed>>

\* The same handler from the await to its end. The button is enabled by the
\* statement after the await: when loginUser() throws, that statement is not
\* reached.
wireAuthModal_loginResume(t) ==
    /\ page = "shop"
    /\ ui[t].login.pc = "login"
    /\ LET c == ui[t].login
           salt == fromBase64(c.user.pass.salt)
           calc == pbkdf2(c.password, salt, c.user.pass.iterations)
       IN  \/ /\ last' = Returned("loginUser", "error", <<>>, {})
              /\ ui' = [ui EXCEPT ![t].login = Idle]
              /\ UNCHANGED <<userSession, refreshed, timer, ufails>>
           \/ /\ calc # c.user.pass.hash
              /\ last' = Returned("loginUser", "none", <<>>, {})
              /\ ufails' = failedAgain(ufails)
              /\ ui' = [ui EXCEPT ![t].login = Idle, ![t].loginDisabled = FALSE]
              /\ UNCHANGED <<userSession, refreshed, timer>>
           \/ /\ calc = c.user.pass.hash
              /\ userSession' = newUserSession(c.user, now)
              /\ refreshed' = FALSE
              /\ ufails' = [ufails EXCEPT !.n = 0]
              /\ last' = Returned("loginUser", "ok", <<>>, c.facts \cup {"justNow"})
              /\ ui' = [ui EXCEPT ![t].login = Idle, ![t].loginDisabled = FALSE,
                                  ![t].form = FALSE, ![t].authTimer = FALSE]
              /\ timer' = [timer EXCEPT ![t] = setupSessionKeepAlive(@)]
    /\ UNCHANGED <<kept, page, now, admin, usersDB, ucall, given>>

\* The click handler of #auth-signup-btn, up to the await of pbkdf2 in
\* signupUser(); every field is filled in and the two passwords are equal.
wireAuthModal_signupClick(t, email, password) ==
    /\ page = "shop"
    /\ ui[t].form /\ ~ui[t].signupDisabled
    /\ LET db == getUsersDB
       IN  IF Len(password) < SIGNUP_MIN_LENGTH
             THEN /\ last' = Returned("signupClick", "short", <<>>, {})
                  /\ UNCHANGED ui
             ELSE IF findUser(db, email) # 0
             THEN /\ last' = Returned("signup", "exists", <<>>,
                                      Fact("otherCase",
                                           \A i \in 1..Len(db): db[i].email # email))
                  /\ UNCHANGED ui
             ELSE /\ \E salt \in SaltBytes:
                        ui' = [ui EXCEPT ![t].signupDisabled = TRUE,
                                         ![t].signup =
                                   [pc |-> "signup", email |-> email,
                                    password |-> password, db |-> db, salt |-> salt]]
                  /\ UNCHANGED last
    /\ UNCHANGED <<kept, ufails, timer, page, now, admin, customer, given, refreshed>>

\* The same handler from the await to its end.
wireAuthModal_signupResume(t) ==
    /\ page = "shop"
    /\ ui[t].signup.pc = "signup"
    /\ \/ /\ last' = Returned("signup", "error", <<>>, {})
          /\ ui' = [ui EXCEPT ![t].signup = Idle]
          /\ UNCHANGED <<usersDB, userSession, given, refreshed, timer>>
       \/ \E rnd \in IdSuffixes:
             LET c == ui[t].signup
                 hash == pbkdf2(c.password, c.salt, USER_ITERATIONS)
                 user == [id |-> generateId("user", now, rnd), email |-> c.email,
                          pass |-> [salt |-> toBase64(c.salt),
                                    iterations |-> USER_ITERATIONS, hash |-> hash]]
             IN  /\ usersDB' = Append(c.db, user)
                 /\ userSession' = newUserSession(user, now)
                 /\ given' = given \cup {<<hash, c.password>>}
                 /\ refreshed' = FALSE
                 /\ last' = Returned("signup", "ok", <<c.email, c.password>>, {"justNow"})
                 /\ ui' = [ui EXCEPT ![t].signup = Idle, ![t].signupDisabled = FALSE,
                                     ![t].form = FALSE]
                 /\ timer' = [timer EXCEPT ![t] = setupSessionKeepAlive(@)]
    /\ UNCHANGED <<kept, ufails, page, now, admin, ucall>>

\* ----------------------------------------------------------- specifications
\* First run: empty storage; setup and login on the admin page, signup and login
\* on the shop page, called from either tab.
Next ==
    \/ Tick(MaxSetupTime)
    \/ \E t \in Tabs, in \in SetupInputs: setupAdmin_call(t, in[1], in[2])
    \/ \E t \in Tabs: setupAdmin_resume(t)
    \/ \E t \in Tabs, in \in LoginInputs: login_call(t, in[1], in[2])
    \/ \E t \in Tabs: login_resume(t)
    \/ \E t \in Tabs, in \in SignupInputs: signupUser_call(t, in[1], in[2])
    \/ \E t \in Tabs: signupUser_resume(t)
    \/ \E t \in Tabs, e \in UserEmails, p \in LoginPasswords: loginUser_call(t, e, p)
    \/ \E t \in Tabs: loginUser_resume(t)

Spec == Init /\ [][Next]_vars

\* The storage after the first-run setup of admin@shop / abcd1234 returned ok at
\* time 0 (a state Spec reaches).
InitAdmin ==
    /\ page = "admin"
    /\ now = 0
    /\ auth = [email |-> "admin@shop", salt |-> toBase64("r1"),
               iterations |-> ADMIN_ITERATIONS,
               hash |-> toBase64(deriveKey(PwAbcd1234, "r1", ADMIN_ITERATIONS)),
               createdAt |-> 0, version |-> 1]
    /\ lockout = [count |-> 0, lockUntil |-> 0]
    /\ session = NULL
    /\ call = [t \in Tabs |-> Idle]
    /\ usersDB = <<>>
    /\ userSession = NULL
    /\ ucall = [t \in Tabs |-> Idle]
    /\ last = Returned("setup", "ok", <<"admin@shop", PwAbcd1234>>, {})
    /\ streak = 0
    /\ given = {<<toBase64(deriveKey(PwAbcd1234, "r1", ADMIN_ITERATIONS)), PwAbcd1234>>}
    /\ refreshed = FALSE
    /\ timer = [t \in Tabs |-> NoListener]
    /\ ufails = NotCounted
    /\ ui = [t \in Tabs |-> FreshPage]
    /\ kept = [t \in Tabs |-> FALSE]

\* Lockout: logins from either tab against the stored credential, the clock
\* running long enough for the lock windows to pass.
NextLockout ==
    \/ Tick(MaxTime)
    \/ \E t \in Tabs, in \in LoginInputs: login_call(t, in[1], in[2])
    \/ \E t \in Tabs: login_resume(t)

SpecLockout == InitAdmin /\ [][NextLockout]_vars

\* The storage after signupUser of a@x / abcd1234 returned ok at time 0 (a state
\* Spec reaches).
InitShop ==
    /\ page = "shop"
    /\ now = 0
    /\ auth = NULL
    /\ lockout = NULL
    /\ session = NULL
    /\ call = [t \in Tabs |-> Idle]
    /\ usersDB = <<[id |-> generateId("user", 0, "k3f9"), email |-> EmailLowerA,
                    pass |-> [salt |-> toBase64("r1"), iterations |-> USER_ITERATIONS,
                              hash |-> toBase64(deriveKey(PwAbcd1234, "r1",
                                                          USER_ITERATIONS))]]>>
    /\ userSession = [uid |-> generateId("user", 0, "k3f9"), email |-> EmailLowerA,
                      createdAt |-> 0, expiresAt |-> USER_SESSION_TTL]
    /\ ucall = [t \in Tabs |-> Idle]
    /\ last = Returned("signup", "ok", <<EmailLowerA, PwAbcd1234>>, {"justNow"})
    /\ streak = 0
    /\ given = {<<toBase64(deriveKey(PwAbcd1234, "r1", USER_ITERATIONS)), PwAbcd1234>>}
    /\ refreshed = FALSE
    /\ timer = [t \in Tabs |-> NoListener]
    /\ ufails = NotCounted
    /\ ui = [t \in Tabs |-> FreshPage]
    /\ kept = [t \in Tabs |-> FALSE]

\* Session lifetime: on either page the owner of the stored credential logs in,
\* the page checks and refreshes the session, the admin logs out, and the clock
\* runs past the expiry of a session.
NextSession ==
    \/ Tick(MaxSessionTime)
    \/ \E t \in Tabs: login_call(t, "admin@shop", PwAbcd1234)
    \/ \E t \in Tabs: login_resume(t)
    \/ \E t \in Tabs: isLoggedIn(t)
    \/ \E t \in Tabs: refreshSession(t)
    \/ \E t \in Tabs: logout(t)
    \/ \E t \in Tabs: loginUser_call(t, EmailLowerA, PwAbcd1234)
    \/ \E t \in Tabs: loginUser_resume(t)
    \/ \E t \in Tabs: isUserLoggedIn(t)
    \/ \E t \in Tabs: refreshUserSession(t)

SpecSession == (InitAdmin \/ InitShop) /\ [][NextSession]_vars

\* The storage after the admin's login returned ok at time 0, right after the
\* first-run setup (a state SpecSession reaches).
InitAdminSession ==
    /\ page = "admin"
    /\ now = 0
    /\ auth = [email |-> "admin@shop", salt |-> toBase64("r1"),
               iterations |-> ADMIN_ITERATIONS,
               hash |-> toBase64(deriveKey(PwAbcd1234, "r1", ADMIN_ITERATIONS)),
               createdAt |-> 0, version |-> 1]
    /\ lockout = [count |-> 0, lockUntil |-> 0]
    /\ session = newSession(createToken("r1"), "admin@shop", 0)
    /\ call = [t \in Tabs |-> Idle]
    /\ usersDB = <<>>
    /\ userSession = NULL
    /\ ucall = [t \in Tabs |-> Idle]
    /\ last = Returned("login", "ok", <<>>, {"afterSetup", "justNow"})
    /\ streak = 0
    /\ given = {<<toBase64(deriveKey(PwAbcd1234, "r1", ADMIN_ITERATIONS)), PwAbcd1234>>}
    /\ refreshed = FALSE
    /\ timer = [t \in Tabs |-> NoListener]
    /\ ufails = NotCounted
    /\ ui = [t \in Tabs |-> FreshPage]
    /\ kept = [t \in Tabs |-> FALSE]

\* Keep-alive: a session was issued at time 0; the page is loaded in either tab,
\* which installs the keep-alive listener while the session is valid, and from
\* then on the user keeps producing input events.
NextKeepAlive ==
    \/ TickActive(MaxActiveTime)
    \/ \E t \in Tabs: init(t)
    \/ \E t \in Tabs: requireAuthOnFirstVisit(t)
    \/ \E t \in Tabs: handler(t)
    \/ \E t \in Tabs: debounce_timeout(t)

SpecKeepAlive == (InitAdminSession \/ InitShop) /\ [][NextKeepAlive]_vars

\* Logout: logins, some of them failing, and logouts against the stored
\* credential, the validity of the session being checked in between.
NextLogout ==
    \/ Tick(MaxSetupTime)
    \/ \E t \in Tabs, in \in LoginInputs: login_call(t, in[1], in[2])
    \/ \E t \in Tabs: login_resume(t)
    \/ \E t \in Tabs: isLoggedIn(t)
    \/ \E t \in Tabs: logout(t)

SpecLogout == InitAdmin /\ [][NextLogout]_vars

\* The shop page on empty storage.
InitSignup == Init /\ page = "shop"

\* Signup: customers sign up from either tab, with passwords that meet the admin
\* page's policy and passwords that do not, and the page checks the session.
NextSignup ==
    \/ Tick(MaxSetupTime)
    \/ \E t \in Tabs, in \in SignupPolicyInputs: signupUser_call(t, in[1], in[2])
    \/ \E t \in Tabs: signupUser_resume(t)
    \/ \E t \in Tabs: isUserLoggedIn(t)

SpecSignup == InitSignup /\ [][NextSignup]_vars

\* Customer logins against the stored record of a@x, from either tab, with the
\* right and with a wrong password, all within one minute; the failed password
\* checks are counted.
InitUserLockout ==
    /\ page = "shop"
    /\ now = 0
    /\ auth = NULL
    /\ lockout = NULL
    /\ session = NULL
    /\ call = [t \in Tabs |-> Idle]
    /\ usersDB = <<[id |-> generateId("user", 0, "k3f9"), email |-> EmailLowerA,
                    pass |-> [salt |-> toBase64("r1"), iterations |-> USER_ITERATIONS,
                              hash |-> toBase64(deriveKey(PwAbcd1234, "r1",
                                                          USER_ITERATIONS))]]>>
    /\ userSession = [uid |-> generateId("user", 0, "k3f9"), email |-> EmailLowerA,
                      createdAt |-> 0, expiresAt |-> USER_SESSION_TTL]
    /\ ucall = [t \in Tabs |-> Idle]
    /\ last = Returned("signup", "ok", <<EmailLowerA, PwAbcd1234>>, {"justNow"})
    /\ streak = 0
    /\ given = {<<toBase64(deriveKey(PwAbcd1234, "r1", USER_ITERATIONS)), PwAbcd1234>>}
    /\ refreshed = FALSE
    /\ timer = [t \in Tabs |-> NoListener]
    /\ ufails = Counted
    /\ ui = [t \in Tabs |-> FreshPage]
    /\ kept = [t \in Tabs |-> FALSE]

NextUserLockout ==
    \/ \E t \in Tabs, e \in {EmailLowerA, EmailUpperA}, p \in LoginPasswords:
          loginUser_call(t, e, p)
    \/ \E t \in Tabs: loginUser_resume(t)
    \/ \E t \in Tabs: isUserLoggedIn(t)

SpecUserLockout == InitUserLockout /\ [][NextUserLockout]_vars

\* Unlocking: logins from either tab against the stored credential, the clock
\* never stopping before MaxUnlockTime.
NextUnlock ==
    \/ Tick(MaxUnlockTime)
    \/ \E t \in Tabs, in \in LoginInputs: login_call(t, in[1], in[2])
    \/ \E t \in Tabs: login_resume(t)

SpecUnlock == InitAdmin /\ [][NextUnlock]_vars /\ WF_vars(Tick(MaxUnlockTime))

\* What is typed into the admin login form, and into the two forms of the auth
\* modal, before the button is clicked.
AdminClickInputs == {<<"admin@shop", PwAbcd1234>>, <<"admin@shop", PwWrong1234>>,
                     <<"admin@shop", PwShort>>}
LoginClickInputs == {<<EmailLowerA, PwAbcd1234>>, <<EmailLowerA, PwWrong1234>>}
SignupClickInputs == {<<EmailLowerA, PwAbcd1234>>, <<EmailB, PwAbcd1234>>,
                      <<EmailB, PwShort>>}

\* The pages as the user drives them, from empty storage: either page is loaded
\* in either tab, the forms are submitted by clicking their buttons, input
\* events reach the keep-alive listeners and the timeouts run.
NextClick ==
    \/ Tick(MaxSetupTime)
    \/ \E t \in Tabs: init(t)
    \/ \E t \in Tabs: requireAuthOnFirstVisit(t)
    \/ \E t \in Tabs: authTimer_timeout(t)
    \/ \E t \in Tabs, in \in AdminClickInputs: wireLogin_click(t, in[1], in[2])
    \/ \E t \in Tabs: wireLogin_resume(t)
    \/ \E t \in Tabs, in \in LoginClickInputs: wireAuthModal_loginClick(t, in[1], in[2])
    \/ \E t \in Tabs: wireAuthModal_loginResume(t)
    \/ \E t \in Tabs, in \in SignupClickInputs: wireAuthModal_signupClick(t, in[1], in[2])
    \/ \E t \in Tabs: wireAuthModal_signupResume(t)
    \/ \E t \in Tabs: handler(t)
    \/ \E t \in Tabs: debounce_timeout(t)

SpecClick == Init /\ [][NextClick]_vars

\* The admin page after setup: logins with every outcome, validity checks,
\* refreshes and logouts, from either tab.
NextAdmin ==
    \/ Tick(MaxSetupTime)
    \/ \E t \in Tabs, in \in LoginInputs: login_call(t, in[1], in[2])
    \/ \E t \in Tabs: login_resume(t)
    \/ \E t \in Tabs: isLoggedIn(t)
    \/ \E t \in Tabs: refreshSession(t)
    \/ \E t \in Tabs: logout(t)

SpecAdmin == InitAdmin /\ [][NextAdmin]_vars

\* Spec reaches the two prepared initial states: as invariants of Spec these fail.
NotInitAdmin == ~InitAdmin
NotInitShop == ~InitShop
NotInitAdminSession == ~InitAdminSession

\* ------------------------------------------------------------------ claims
\* A login that returns having recorded a failure, and one that returns ok.
FailureRecorded(t) ==
    call[t].pc = "login" /\ last'.reason = "invalid" /\ login_resume(t)
LoginOk(t) ==
    call[t].pc = "login" /\ last'.reason = "ok" /\ login_resume(t)
LoginUserOk(t) ==
    ucall[t].pc = "login" /\ last'.reason = "ok" /\ loginUser_resume(t)

\* C1: the k-th failure recorded since the last reset leaves failureCount = k; for
\* k >= 5 it sets lockUntil = now + min(k-4, 6) minutes (1 minute at the 5th, 6 at the
\* 10th, never more than 6 from the 11th on), and failures 1 to 4 set no lock.
C1_LockoutEscalation ==
    [][\A t \in Tabs: FailureRecorded(t) =>
          LET k == streak + 1
              cappedStep == IF k - 4 <= 6 THEN k - 4 ELSE 6
          IN  /\ lockout'.count = k
              /\ k >= 5 => lockout'.lockUntil = now + cappedStep
              /\ k = 5 => lockout'.lockUntil = now + 1
              /\ k = 10 => lockout'.lockUntil = now + 6
              /\ k >= 11 => lockout'.lockUntil <= now + 6
              /\ k <= 4 => lockout'.lockUntil = 0]_vars

\* The 11th consecutive failure has just been recorded and locks for 6 minutes.
C1_Witness ==
    /\ last.op = "login" /\ last.reason = "invalid"
    /\ streak = 11 /\ lockout.count = 11
    /\ lockout.lockUntil = now + 6

\* C2: a login called while lockUntil > now returns 'locked' without starting a
\* verification, whatever identity and password it is given, and leaves the lockout
\* record, the credential record and the session as they are.
C2_LockedLoginRefused ==
    [][\A t \in Tabs, in \in LoginInputs:
          (getLockout.lockUntil > now /\ call[t] = Idle /\ login_call(t, in[1], in[2])) =>
              /\ last'.op = "login" /\ last'.reason = "locked"
              /\ call' = call
              /\ lockout' = lockout /\ auth' = auth /\ session' = session]_vars

\* A login with the stored identity and password was refused as locked, the lock
\* of 5 or more failures still being in force.
C2_Witness ==
    /\ last.op = "login" /\ last.reason = "locked"
    /\ last.facts = {"emailOk", "passwordOk"}
    /\ lockout.count >= 5 /\ lockout.lockUntil > now

\* C3 as claimed: failureCount is never incremented, and lockUntil never rewritten,
\* at a moment when lockUntil > now, also when two logins overlap.
C3_NoFailureWhileLocked ==
    [][lockout' # lockout /\ lockout'.count > lockout.count
          => ~(lockout.lockUntil > now)]_vars

\* C3 as amended: a failure is recorded only by a login that was called while the
\* lock was not in force (lockUntil <= now at the call); such a login, suspended
\* in key derivation, may record its failure after another one has set the lock.
C3_FailureOnlyByCallMadeUnlocked ==
    [][\A t \in Tabs: FailureRecorded(t) => "lockedAtCall" \notin call[t].facts]_vars

\* A failure was recorded while the lock was in force.
C3_Witness ==
    /\ last.op = "login" /\ last.reason = "invalid"
    /\ "whileLocked" \in last.facts
    /\ lockout.count >= 6

\* C4: every login that returns ok leaves failureCount = 0 and lockUntil = 0.
C4_SuccessResetsLockout ==
    [][\A t \in Tabs: LoginOk(t) => lockout' = [count |-> 0, lockUntil |-> 0]]_vars

\* A login called at the first instant the lock of 5 or more failures was no
\* longer in force (now = lockUntil) has returned ok, and the lockout is reset.
C4_Witness ==
    /\ last.op = "login" /\ last.reason = "ok"
    /\ "atExpiry" \in last.facts
    /\ lockout = [count |-> 0, lockUntil |-> 0]

\* C5: a login called while not locked against an existing credential record, with
\* another password or another identity than the record's, returns 'invalid',
\* increases failureCount by exactly 1 and leaves credential and session unchanged.
C5_InvalidLogin ==
    [][\A t \in Tabs:
          (/\ call[t].pc = "login"
           /\ call[t].auth # NULL
           /\ "lockedAtCall" \notin call[t].facts
           /\ \/ call[t].email # call[t].auth.email
              \/ <<call[t].auth.hash, call[t].password>> \notin given
           /\ login_resume(t))
          => /\ last'.op = "login" /\ last'.reason = "invalid"
             /\ lockout'.count = getLockout.count + 1
             /\ auth' = auth /\ session' = session]_vars

\* A login with the right password and another identity has returned 'invalid'
\* while a session issued earlier is still stored.
C5_Witness ==
    /\ last.op = "login" /\ last.reason = "invalid"
    /\ lockout.count = 3
    /\ session # NULL
    /\ \E t \in Tabs: call[t].pc = "login" /\ call[t].email = "other@shop"

\* C6: no false accept. On either page a login returns ok, or stores a session,
\* only if the record it read from storage when it was called is the record of the
\* identity it was given and was created with the password it was given.
C6_NoFalseAccept ==
    [][/\ \A t \in Tabs:
            (call[t] = Idle /\ call'[t].pc = "login") => call'[t].auth = auth
       /\ \A t \in Tabs:
            (/\ call[t].pc = "login"
             /\ (last'.reason = "ok" \/ session' # session)
             /\ login_resume(t)) =>
                /\ call[t].auth # NULL
                /\ call[t].email = call[t].auth.email
                /\ <<call[t].auth.hash, call[t].password>> \in given
                /\ last'.reason = "ok"
                /\ session'.email = call[t].email
       /\ \A t \in Tabs:
            (ucall[t] = Idle /\ ucall'[t].pc = "login") =>
                \E i \in 1..Len(usersDB): usersDB[i] = ucall'[t].user
       /\ \A t \in Tabs:
            (/\ ucall[t].pc = "login"
             /\ (last'.reason = "ok" \/ userSession' # userSession)
             /\ loginUser_resume(t)) =>
                /\ toLowerCase(ucall[t].user.email) = toLowerCase(ucall[t].email)
                /\ <<ucall[t].user.pass.hash, ucall[t].password>> \in given
                /\ last'.reason = "ok"
                /\ userSession'.uid = ucall[t].user.id]_vars

\* A customer login was accepted for the record of A@x, found by an email that
\* differs in letter case, with the password A@x signed up with.
C6_Witness ==
    /\ last.op = "loginUser" /\ last.reason = "ok"
    /\ userSession # NULL /\ userSession.email = EmailUpperA

\* C7: a login called right after a setup (signup) that returned ok, with the same
\* identity and password, is not turned away at the call and returns ok.
C7_SetupLoginRoundTrip ==
    [][/\ \A t \in Tabs, in \in LoginInputs:
            (/\ last.op = "setup" /\ last.reason = "ok" /\ last.who = in
             /\ call[t] = Idle
             /\ login_call(t, in[1], in[2]))
            => call'[t].pc = "login"
       /\ \A t \in Tabs:
            (/\ call[t].pc = "login" /\ "afterSetup" \in call[t].facts
             /\ login_resume(t))
            => last'.reason = "ok"
       /\ \A t \in Tabs, e \in UserEmails, p \in LoginPasswords:
            (/\ last.op = "signup" /\ last.reason = "ok" /\ last.who = <<e, p>>
             /\ ucall[t] = Idle
             /\ loginUser_call(t, e, p))
            => ucall'[t].pc = "login"
       /\ \A t \in Tabs:
            (/\ ucall[t].pc = "login" /\ "afterSetup" \in ucall[t].facts
             /\ loginUser_resume(t))
            => last'.reason = "ok"]_vars

\* A login that followed a successful setup with the same identity and password
\* has returned ok.
C7_Witness ==
    /\ last.op = "login" /\ last.reason = "ok"
    /\ "afterSetup" \in last.facts

\* C8 as claimed: on either page a login that returns ok stores a session of the
\* identity with createdAt = lastActivity = now and expiresAt = now + 30 minutes.
C8_SessionIssued ==
    [][/\ \A t \in Tabs: LoginOk(t) =>
            /\ session' # NULL
            /\ session'.email = call[t].email
            /\ session'.createdAt = now
            /\ session'.lastActivity = now
            /\ session'.expiresAt = now + 30
       /\ \A t \in Tabs: LoginUserOk(t) =>
            /\ userSession' # NULL
            /\ userSession'.email = ucall[t].user.email
            /\ userSession'.createdAt = now
            /\ userSession'.expiresAt = now + 30
            /\ "lastActivity" \in DOMAIN userSession'
            /\ userSession'.lastActivity = now]_vars

\* C9: the validity check answers true when called right after a login that
\* returned ok, and false at every time later than createdAt + 30 minutes when the
\* session was not refreshed in between.
C9_LoggedInUntilExpiry ==
    last.op \in {"isLoggedIn", "isUserLoggedIn"} =>
        /\ "afterLogin" \in last.facts => last.reason = "true"
        /\ "past30" \in last.facts => last.reason = "false"

\* The admin's session, never refreshed, was checked more than 30 minutes after
\* it was issued, and the check answered false.
C9_Witness ==
    /\ last.op = "isLoggedIn" /\ last.reason = "false"
    /\ "past30" \in last.facts

\* C10 as claimed: the validity check answers false whenever no session is stored
\* or the stored session has expiresAt <= now.
C10_ExpiryBoundary ==
    (/\ last.op \in {"isLoggedIn", "isUserLoggedIn"}
     /\ ("noSession" \in last.facts \/ "expired" \in last.facts))
    => last.reason = "false"

\* C11 as claimed: on either page a refresh called at time t writes nothing when
\* no session is stored, and on a valid session sets expiresAt = t + 30 minutes and
\* lastActivity = t, so that the session is valid for the next 30 minutes (issued
\* at 0 and refreshed at 29: until 59).
C11_Refresh ==
    [][/\ \A t \in Tabs:
            (page = "admin" /\ refreshSession(t)) =>
                /\ session = NULL => session' = NULL
                /\ (session # NULL /\ session.expiresAt > now) =>
                      /\ session'.expiresAt = now + 30
                      /\ session'.lastActivity = now
                      /\ \A u \in now..(now + 29): isLoggedIn_result(session', u)
       /\ \A t \in Tabs:
            (page = "shop" /\ refreshUserSession(t)) =>
                /\ userSession = NULL => userSession' = NULL
                /\ (userSession # NULL /\ userSession.expiresAt > now) =>
                      /\ userSession'.expiresAt = now + 30
                      /\ \A u \in now..(now + 29):
                            isUserLoggedIn_result(userSession', u)
                      /\ "lastActivity" \in DOMAIN userSession'
                      /\ userSession'.lastActivity = now]_vars

\* A login or signup that returns ok.
SessionIssued ==
    \/ \E t \in Tabs: LoginOk(t)
    \/ \E t \in Tabs: LoginUserOk(t)
    \/ \E t \in Tabs: ucall[t].pc = "signup" /\ signupUser_resume(t)

\* C12 as claimed: a stored session whose expiresAt has passed is as good as
\* absent. Whatever is called on it other than a login or signup that succeeds,
\* refresh included, the stored record is not rewritten (at most removed) and the
\* validity check keeps answering false.
C12_ExpiredStaysExpired ==
    [][/\ (page = "admin" /\ session # NULL /\ session.expiresAt < now
           /\ ~SessionIssued) =>
              /\ session' \in {session, NULL}
              /\ ~isLoggedIn_result(session', now')
       /\ (page = "shop" /\ userSession # NULL /\ userSession.expiresAt < now
           /\ ~SessionIssued) =>
              /\ userSession' \in {userSession, NULL}
              /\ ~isUserLoggedIn_result(userSession', now')]_vars

\* C13 as claimed: with the keep-alive listener installed and the user producing
\* input events without a pause (here: at least one a minute), the session stays
\* valid for as long as the activity continues, whatever the timing of the events.
C13_ActiveSessionStaysValid ==
    (\E t \in Tabs: timer[t] # NoListener) =>
        IF page = "admin"
          THEN isLoggedIn_result(getSession, now)
          ELSE isUserLoggedIn_result(getUserSession, now)

\* The password policy in the words of the claims: shorter than 8 characters, or
\* no alphabetic character, or no digit.
WeakPassword(p) ==
    \/ Len(p) < 8
    \/ \A i \in 1..Len(p): p[i] \notin Letters
    \/ \A i \in 1..Len(p): p[i] \notin Digits

\* C14: setupAdmin returns 'weak' exactly when the password is shorter than 8
\* characters or has no letter or has no digit, and then leaves credential, lockout
\* and session as they are; any other password (abcd1234 for one) goes on to the
\* key derivation and the setup returns ok.
C14_WeakPassword ==
    [][/\ \A t \in Tabs, in \in SetupInputs:
            (page = "admin" /\ call[t] = Idle /\ setupAdmin_call(t, in[1], in[2])) =>
                /\ WeakPassword(in[2]) =>
                      /\ last'.op = "setup" /\ last'.reason = "weak"
                      /\ call' = call
                      /\ auth' = auth /\ lockout' = lockout /\ session' = session
                /\ ~WeakPassword(in[2]) => (call'[t].pc = "setup" /\ last' = last)
                /\ in[2] = PwAbcd1234 => call'[t].pc = "setup"
       /\ \A t \in Tabs:
            (call[t].pc = "setup" /\ setupAdmin_resume(t)) =>
                /\ ~WeakPassword(call[t].password)
                /\ last'.op = "setup" /\ last'.reason = "ok"]_vars

\* A setup was rejected as weak while a credential record and a session exist.
C14_Witness ==
    /\ last.op = "setup" /\ last.reason = "weak"
    /\ auth # NULL /\ session # NULL

\* C15 as claimed: a signupUser whose password is shorter than 8 characters, or
\* has no letter, or has no digit, is rejected as weak: it adds no record to
\* usersDB and issues no session.
C15_SignupPolicy ==
    [][\A t \in Tabs:
          (/\ ucall[t].pc = "signup"
           /\ WeakPassword(ucall[t].password)
           /\ signupUser_resume(t))
          => /\ last'.reason = "weak"
             /\ usersDB' = usersDB
             /\ userSession' = userSession]_vars

\* C16 as claimed: once an admin credential record exists, no step replaces or
\* changes its identity, salt, iterations or hash.
C16_SetupOneShot ==
    [][auth # NULL =>
          /\ auth' # NULL
          /\ auth'.email = auth.email
          /\ auth'.salt = auth.salt
          /\ auth'.iterations = auth.iterations
          /\ auth'.hash = auth.hash]_vars

\* C17: a signupUser whose email equals, ignoring letter case, the email of a
\* record of usersDB returns 'exists', starts no key derivation and leaves usersDB
\* and the session as they are.
C17_SignupExists ==
    [][\A t \in Tabs, in \in SignupInputs:
          (/\ page = "shop" /\ ucall[t] = Idle
           /\ \E i \in 1..Len(usersDB):
                 toLowerCase(usersDB[i].email) = toLowerCase(in[1])
           /\ signupUser_call(t, in[1], in[2]))
          => /\ last'.op = "signup" /\ last'.reason = "exists"
             /\ ucall' = ucall
             /\ usersDB' = usersDB
             /\ userSession' = userSession]_vars

\* A signup was refused as 'exists' for an email that differs from the stored
\* one in letter case only.
C17_Witness ==
    /\ last.op = "signup" /\ last.reason = "exists"
    /\ "otherCase" \in last.facts
    /\ Len(usersDB) = 1

\* C18: right after signupUser returned ok the stored session is that of the user
\* just created, issued now and valid for the next 30 minutes, and
\* isUserLoggedIn called at that point answers true.
C18_SignupLogsIn ==
    /\ (last.op = "signup" /\ last.reason = "ok" /\ "justNow" \in last.facts) =>
          /\ userSession # NULL
          /\ userSession.email = last.who[1]
          /\ \E i \in 1..Len(usersDB):
                /\ usersDB[i].email = last.who[1]
                /\ usersDB[i].id = userSession.uid
          /\ userSession.createdAt = now
          /\ userSession.expiresAt = now + 30
          /\ \A u \in now..(now + 29): isUserLoggedIn_result(userSession, u)
    /\ (last.op = "isUserLoggedIn" /\ "afterSignup" \in last.facts) =>
          last.reason = "true"

\* isUserLoggedIn, called right after a signup returned ok, answered true.
C18_Witness ==
    /\ last.op = "isUserLoggedIn" /\ last.reason = "true"
    /\ "afterSignup" \in last.facts

\* C19: logout leaves no session stored, so that the validity check is false
\* right after it, whether or not a session was stored before, and leaves the
\* credential record and the lockout record as they are.
C19_Logout ==
    [][\A t \in Tabs:
          (page = "admin" /\ logout(t)) =>
              /\ session' = NULL
              /\ ~isLoggedIn_result(session', now')
              /\ auth' = auth
              /\ lockout' = lockout]_vars

\* A logout has returned with three failures on record: no session is stored and
\* the failures are still on record.
C19_Witness ==
    /\ last.op = "logout"
    /\ session = NULL
    /\ lockout.count = 3
    /\ auth # NULL

\* C20: a login called while no credential record is stored returns
\* 'setup-required', starts no verification, and leaves the lockout record and the
\* session as they are.
C20_SetupRequired ==
    [][\A t \in Tabs, in \in LoginInputs:
          (page = "admin" /\ auth = NULL /\ call[t] = Idle
           /\ login_call(t, in[1], in[2]))
          => /\ last'.op = "login" /\ last'.reason = "setup-required"
             /\ call' = call
             /\ lockout' = lockout
             /\ session' = session]_vars

\* A login returned 'setup-required' on empty storage while a setup is still
\* deriving its key in the other tab.
C20_Witness ==
    /\ last.op = "login" /\ last.reason = "setup-required"
    /\ auth = NULL /\ lockout = NULL /\ session = NULL
    /\ \E t \in Tabs: call[t].pc = "setup"

\* C21 as claimed: once 5 consecutive password checks of loginUser have failed,
\* a further loginUser call for the identity, made before any lock window can
\* have elapsed, is refused as locked without a password check being started.
C21_CustomerLockout ==
    [][\A t \in Tabs, e \in {EmailLowerA, EmailUpperA}, p \in LoginPasswords:
          (/\ page = "shop" /\ ufails.n >= 5 /\ ucall[t] = Idle
           /\ loginUser_call(t, e, p))
          => /\ last'.op = "loginUser" /\ last'.reason = "locked"
             /\ ucall' = ucall]_vars

\* C22 as claimed: every login, setup and signup call on either page that has
\* returned, returned ok or a failure with a reason from the closed set.
C22_ClosedReasons ==
    last.op \in {"login", "setup", "signup", "loginUser"} =>
        last.reason \in {"ok", "locked", "setup-required", "invalid", "weak", "exists"}

C24_ExpiresAfterActivity ==
    /\ session # NULL => session.expiresAt > session.lastActivity
    /\ userSession # NULL =>
          /\ "lastActivity" \in DOMAIN userSession
          /\ userSession.expiresAt > userSession.lastActivity

\* C25: every recorded failure leaves lockUntil at least what it was, also when
\* the failure is recorded by a login that overlapped the one that set the lock.
C25_LockUntilMonotone ==
    [][\A t \in Tabs: FailureRecorded(t) =>
          lockout'.lockUntil >= getLockout.lockUntil]_vars

\* Two logins called at the instant the first lock ended have both failed: the
\* second failure was recorded while the lock of the first was in force and
\* moved lockUntil from now + 2 to now + 3.
C25_Witness ==
    /\ last.op = "login" /\ last.reason = "invalid"
    /\ "whileLocked" \in last.facts
    /\ lockout.count = 7
    /\ lockout.lockUntil = now + 3

\* C26 as claimed: no record of usersDB is ever dropped, so that two overlapping
\* signups that both return ok are both in usersDB afterwards, and the session a
\* signup issues refers to a user that is in usersDB.
C26_NoSignupLost ==
    [][/\ \A i \in 1..Len(usersDB):
            \E j \in 1..Len(usersDB'): usersDB'[j] = usersDB[i]
       /\ \A t \in Tabs:
            (ucall[t].pc = "signup" /\ signupUser_resume(t)) =>
                \E j \in 1..Len(usersDB'): usersDB'[j].id = userSession'.uid]_vars

\* C26 as amended: a signup that returns ok writes back the usersDB it read when
\* it was called, with its own record appended (last write wins: a record added by
\* an overlapping signup in between is dropped; when nothing was written in
\* between, every record is kept), and the session it issues refers to its own
\* record, which is in usersDB.
C26_LastWriteWins ==
    [][\A t \in Tabs:
          (ucall[t].pc = "signup" /\ signupUser_resume(t)) =>
              LET n == Len(usersDB')
              IN  /\ n = Len(ucall[t].db) + 1
                  /\ \A i \in 1..(n - 1): usersDB'[i] = ucall[t].db[i]
                  /\ usersDB'[n].email = ucall[t].email
                  /\ userSession'.uid = usersDB'[n].id
                  /\ ucall[t].db = usersDB =>
                        \A i \in 1..Len(usersDB): usersDB'[i] = usersDB[i]]_vars

\* a@x (password abcd1234) and b@x signed up in overlapping calls and both
\* returned ok; usersDB holds the record of b@x alone.
C26_Witness ==
    /\ last.op = "signup" /\ last.reason = "ok"
    /\ Len(usersDB) = 1
    /\ usersDB[1].email = EmailB
    /\ \E g \in given: g[2] = PwAbcd1234

\* C27: usersDB never holds two records whose emails are equal ignoring letter
\* case, also after signups that overlapped.
C27_NoDuplicateEmail ==
    \A i, j \in 1..Len(usersDB):
        i # j => toLowerCase(usersDB[i].email) # toLowerCase(usersDB[j].email)

\* a@x and A@x signed up in overlapping calls, both passing the check on the
\* empty usersDB, and both returned ok; usersDB holds one record, that of A@x.
C27_Witness ==
    /\ last.op = "signup" /\ last.reason = "ok"
    /\ Len(usersDB) = 1
    /\ usersDB[1].email = EmailUpperA
    /\ \E g \in given: g[2] = PwAbcd1234

\* C28 as claimed: at a moment when lockUntil > now no login returns ok, no
\* session is stored and the lockout record is not reset.
C28_NoSessionWhileLocked ==
    [][getLockout.lockUntil > now =>
          /\ session' = session
          /\ lockout'.count >= getLockout.count
          /\ \A t \in Tabs: ~LoginOk(t)]_vars

\* C28 as amended: a login returns ok, stores a session or resets the lockout
\* record only if it was called while no lock was in force (lockUntil <= now at
\* the call); such a login, suspended in key derivation, does so also after
\* another login has set the lock in the meantime.
C28_OkOnlyByCallMadeUnlocked ==
    [][/\ \A t \in Tabs: LoginOk(t) => "lockedAtCall" \notin call[t].facts
       /\ (session' # session \/ lockout'.count < getLockout.count) =>
             \E t \in Tabs: LoginOk(t)]_vars

\* A login has returned ok while a lock was in force.
C28_Witness ==
    /\ last.op = "login" /\ last.reason = "ok"
    /\ "whileLocked" \in last.facts
    /\ session # NULL
    /\ lockout = [count |-> 0, lockUntil |-> 0]

\* What C29 says of the count: the passing of time leaves the lockout record as
\* it is, and a failure recorded on a count of 5 or more makes the count k >= 6
\* and at once starts a lock of min(k-4, 6) minutes.
CountKeptAcrossWindows ==
    /\ now' # now => lockout' = lockout
    /\ \A t \in Tabs: FailureRecorded(t) =>
          LET k == getLockout.count + 1
          IN  k >= 6 =>
                /\ lockout'.count = k
                /\ lockout'.lockUntil = now + (IF k - 4 <= 6 THEN k - 4 ELSE 6)
                /\ lockout'.lockUntil > now

\* C29 as claimed: the above, and at most one password is evaluated between two
\* consecutive lock windows: with 5 or more failures on record no verification is
\* started while another one is in flight.
C29_OnePasswordPerWindow ==
    [][/\ CountKeptAcrossWindows
       /\ getLockout.count >= 5 =>
             \A t \in Tabs, in \in LoginInputs:
                (/\ call[t] = Idle
                 /\ \E u \in Tabs \ {t}: call[u].pc = "login"
                 /\ login_call(t, in[1], in[2]))
                => call' = call]_vars

\* C29 as amended: the count is kept when a lock window elapses and the next
\* recorded failure at once starts the next lock, so that of logins that do not
\* overlap at most one is evaluated between two lock windows; logins called from
\* two tabs before the first of them has returned are all evaluated.
C29_CountKeptAcrossWindows ==
    [][CountKeptAcrossWindows]_vars

\* After the first lock (5 failures at time 0) had elapsed, the next failure was
\* recorded with nothing else in flight: count 6, locked for 2 minutes.
C29_Witness ==
    /\ last.op = "login" /\ last.reason = "invalid"
    /\ "whileLocked" \notin last.facts
    /\ lockout.count = 6
    /\ lockout.lockUntil = now + 2
    /\ \A t \in Tabs: call[t] = Idle

\* C30: whenever the lockout record has lockUntil > 0 it has failureCount >= 5,
\* and every reset (a login or a setup that returns ok) sets both fields to 0.
C30_LockNeedsFiveFailures ==
    [][/\ lockout' # NULL =>
             /\ lockout'.lockUntil > 0 => lockout'.count >= 5
             /\ lockout'.count = 0 => lockout'.lockUntil = 0
       /\ \A t \in Tabs:
             (LoginOk(t) \/ (call[t].pc = "setup" /\ setupAdmin_resume(t)))
             => lockout' = [count |-> 0, lockUntil |-> 0]]_vars

\* The fifth failure in a row has been recorded at time 1: locked until 2.
C30_Witness ==
    /\ last.op = "login" /\ last.reason = "invalid"
    /\ lockout.count = 5
    /\ lockout.lockUntil = now + 1
    /\ now = 1

\* C31: in every reachable state lockUntil <= now + 6 minutes, however many
\* failures have accumulated and whichever tab recorded them.
C31_LockCapped ==
    getLockout.lockUntil <= now + LOCK_CAP * LOCK_STEP

\* The 12th failure in a row has been recorded: the lock is at the cap of
\* 6 minutes, where the uncapped step would be 8.
C31_Witness ==
    /\ last.op = "login" /\ last.reason = "invalid"
    /\ lockout.count = 12
    /\ lockout.lockUntil = now + LOCK_CAP * LOCK_STEP

\* C32 as claimed: a validity check that finds a stored session whose expiry has
\* passed (expiresAt <= now) removes the record, on the admin page and on the
\* shop page: no expired session record is stored after the check.
C32_StaleSessionDiscarded ==
    [][\A t \in Tabs:
          /\ (/\ page = "admin"
              /\ session # NULL /\ session.expiresAt <= now
              /\ isLoggedIn(t)) => session' = NULL
          /\ (/\ page = "shop"
              /\ userSession # NULL /\ userSession.expiresAt <= now
              /\ isUserLoggedIn(t)) => userSession' = NULL]_vars

\* C33 as claimed: in one page the debounced keep-alive invokes refresh at most
\* once in any 60 seconds, whatever the input events and however many logins and
\* signups have succeeded in the page: no timeout of the keep-alive runs in a
\* tab whose keep-alive has invoked refresh less than 60 seconds before.
C33_RefreshAtMostOncePerMinute ==
    [][\A t \in Tabs: kept[t] => ~debounce_timeout(t)]_vars

\* C34 as claimed: on each page a submit button is disabled exactly while a call
\* started from it is in flight: it is disabled from the click to the end of the
\* call, so that no second call starts from it, and it is enabled again when the
\* call has completed, whether it returned or the key derivation raised an error.
C34_DisabledWhileInFlight ==
    \A t \in Tabs:
        /\ ui[t].loginDisabled <=> ui[t].login # Idle
        /\ ui[t].signupDisabled <=> ui[t].signup # Idle

\* C35: login with any outcome, logout, refreshSession and isLoggedIn leave the
\* stored credential record exactly as it is (identity, salt, iterations, hash),
\* and a credential record that exists keeps existing.
C35_CredentialUntouched ==
    [][/\ auth' = auth
       /\ auth # NULL => auth' # NULL]_vars

\* After a login that returned ok, a refresh, five failed logins and a logout
\* the record is the one setup stored.
C35_Witness ==
    /\ last.op = "logout"
    /\ refreshed
    /\ lockout.count = LOCK_THRESHOLD /\ lockout.lockUntil > now
    /\ auth.email = "admin@shop"
    /\ auth.iterations = ADMIN_ITERATIONS
    /\ <<auth.hash, PwAbcd1234>> \in given

\* C36: a refresh of a stored session changes its expiresAt and lastActivity
\* only: the token (the uid on the shop page), the identity and createdAt are as
\* before and no field is added or removed; the credential record, the lockout
\* state and the stored users are untouched. With no session stored, none is.
C36_RefreshFrame ==
    [][\A t \in Tabs:
          /\ (page = "admin" /\ refreshSession(t)) =>
                /\ auth' = auth /\ lockout' = lockout
                /\ session = NULL => session' = NULL
                /\ session # NULL =>
                      /\ DOMAIN session' = DOMAIN session
                      /\ session'.token = session.token
                      /\ session'.email = session.email
                      /\ session'.createdAt = session.createdAt
          /\ (page = "shop" /\ refreshUserSession(t)) =>
                /\ usersDB' = usersDB
                /\ userSession = NULL => userSession' = NULL
                /\ userSession # NULL =>
                      /\ DOMAIN userSession' = DOMAIN userSession
                      /\ userSession'.uid = userSession.uid
                      /\ userSession'.email = userSession.email
                      /\ userSession'.createdAt = userSession.createdAt]_vars

\* A session issued at an earlier time has just been refreshed: it expires 30
\* minutes from now and is still the session created then.
C36_Witness ==
    /\ last.op = "refresh"
    /\ session # NULL
    /\ session.createdAt < now
    /\ session.lastActivity = now
    /\ session.expiresAt = now + SESSION_TTL
    /\ session.token = createToken("r2")

\* C37: in every reachable state failureCount > 0 implies that an admin
\* credential record exists, and so does a lock; a login that was answered
\* 'locked' was answered so with a credential record stored.
C37_FailuresNeedCredential ==
    /\ getLockout.count > 0 => auth # NULL
    /\ getLockout.lockUntil > 0 => auth # NULL
    /\ (last.op = "login" /\ last.reason = "locked") => auth # NULL

\* From empty storage: after a setup, failures have locked the record, and a
\* login with another identity than the stored one has been answered 'locked'.
C37_Witness ==
    /\ last.op = "login" /\ last.reason = "locked"
    /\ "emailOk" \notin last.facts
    /\ lockout.count >= LOCK_THRESHOLD
    /\ auth # NULL
    /\ auth.createdAt = 1
=============================================================================
